---- MODULE Spec2Model ----
(***************************************************************************)
(* Model of the calendar state hook useCalendarState (src/unnamed/part_000) *)
(* and of the date arithmetic and alignment helpers it calls.               *)
(*                                                                          *)
(* A CalendarDate is a record [calendar, year, month, day].  Two calendar   *)
(* systems are modelled, "gregory" and "ethiopic"; their months and years   *)
(* differ, so that re-expressing a date in the other system changes every   *)
(* field while keeping the absolute (Julian) day.                           *)
(***************************************************************************)
EXTENDS Integers, Sequences, FiniteSets, TLC

\* ------------------------------------------------------------------------
\* Bounds of the model
\* ------------------------------------------------------------------------

\* Number of consecutive days, starting at FirstDay, that a stored focused
\* date may take, there or on the same days one year later.  Operations whose
\* result would leave these days are not taken.  The range runs from
\* 2021-12-22 to 2022-02-28, so that it holds months of 31 and of 28 days.
MaxDays == 69

\* Number of consecutive days, starting at FirstDay, from which the focused
\* date and the window start of an arbitrary state are drawn.
ReconDays == 45

\* ------------------------------------------------------------------------
\* Calendar systems (@internationalized/date)
\* ------------------------------------------------------------------------

EPOCH == 1721426

ETHIOPIC_EPOCH == 1723856

Calendars == {"gregory", "ethiopic"}

\* "No date": an absent minValue, maxValue or value.
NoDate == [calendar |-> "none", year |-> 0, month |-> 0, day |-> 0]

CalendarDate(c, y, m, d) == [calendar |-> c, year |-> y, month |-> m, day |-> d]

isLeapYear(year) == year % 4 = 0 /\ (year % 100 # 0 \/ year % 400 = 0)

gregorianToJulianDay(year, month, day) ==
    LET y1 == year - 1
        monthOffset == IF month <= 2 THEN 0 ELSE IF isLeapYear(year) THEN -1 ELSE -2
    IN  EPOCH - 1 + 365 * y1 + (y1 \div 4) - (y1 \div 100) + (y1 \div 400)
          + ((367 * month - 362) \div 12) + monthOffset + day

gregorianFromJulianDay(jd) ==
    LET depoch == jd - EPOCH
        quadricent == depoch \div 146097
        dqc == depoch % 146097
        cent == dqc \div 36524
        dcent == dqc % 36524
        quad == dcent \div 1461
        dquad == dcent % 1461
        yindex == dquad \div 365
        year == quadricent * 400 + cent * 100 + quad * 4 + yindex
                  + (IF cent # 4 /\ yindex # 4 THEN 1 ELSE 0)
        yearDay == jd - gregorianToJulianDay(year, 1, 1)
        leapAdj == IF jd < gregorianToJulianDay(year, 3, 1) THEN 0
                   ELSE IF isLeapYear(year) THEN 1 ELSE 2
        month == ((yearDay + leapAdj) * 12 + 373) \div 367
        day == jd - gregorianToJulianDay(year, month, 1) + 1
    IN  CalendarDate("gregory", year, month, day)

ceToJulianDay(epoch, year, month, day) ==
    epoch + 365 * year + (year \div 4) + 30 * (month - 1) + day - 1

julianDayToCE(epoch, jd) ==
    LET c4 == (jd - epoch) \div 1461
        r4 == (jd - epoch) % 1461
        year == 4 * c4 + ((r4 \div 365) - (r4 \div 1460))
        doy == IF r4 = 1460 THEN 365 ELSE r4 % 365
    IN  CalendarDate("ethiopic", year, (doy \div 30) + 1, (doy % 30) + 1)

toJulianDay(date) ==
    IF date.calendar = "gregory"
    THEN gregorianToJulianDay(date.year, date.month, date.day)
    ELSE ceToJulianDay(ETHIOPIC_EPOCH, date.year, date.month, date.day)

fromJulianDay(calendar, jd) ==
    IF calendar = "gregory" THEN gregorianFromJulianDay(jd)
    ELSE julianDayToCE(ETHIOPIC_EPOCH, jd)

getMonthsInYear(calendar) == IF calendar = "gregory" THEN 12 ELSE 13

getDaysInMonth(calendar, year, month) ==
    IF calendar = "gregory"
    THEN IF month = 2 THEN (IF isLeapYear(year) THEN 29 ELSE 28)
         ELSE IF month \in {4, 6, 9, 11} THEN 30 ELSE 31
    ELSE IF month % 13 # 0 THEN 30 ELSE ((year % 4) \div 3) + 5

\* a.compare(b): the difference of the Julian days, whatever the calendars.
compare(a, b) == toJulianDay(a) - toJulianDay(b)

isSameDay(a, b) == compare(a, b) = 0

\* toCalendar(date, calendar): the same day in another calendar system.
toCalendar(date, calendar) ==
    IF date.calendar = calendar THEN date
    ELSE fromJulianDay(calendar, toJulianDay(date))

minDate(a, b) == IF compare(a, b) <= 0 THEN a ELSE b

maxDate(a, b) == IF compare(a, b) >= 0 THEN a ELSE b

\* ------------------------------------------------------------------------
\* Durations and date arithmetic
\* ------------------------------------------------------------------------

Duration(y, m, w, d) == [years |-> y, months |-> m, weeks |-> w, days |-> d]

Days(n) == Duration(0, 0, 0, n)

invertDuration(dur) == Duration(-dur.years, -dur.months, -dur.weeks, -dur.days)

\* date.add(duration): years, then months (balanced into the year), the day
\* constrained to the month's length, then weeks and days (balanced through
\* the months).
add(date, dur) ==
    LET n == getMonthsInYear(date.calendar)
        total == (date.year + dur.years) * n + (date.month - 1) + dur.months
        year == total \div n
        month == (total % n) + 1
        dim == getDaysInMonth(date.calendar, year, month)
        day == IF date.day > dim THEN dim ELSE date.day
        jd == toJulianDay(CalendarDate(date.calendar, year, month, day))
                + 7 * dur.weeks + dur.days
    IN  fromJulianDay(date.calendar, jd)

subtract(date, dur) == add(date, invertDuration(dur))

\* Week start of the locale: 0 (Sunday), as in en-US.
getWeekStart == 0

getDayOfWeek(date) == (toJulianDay(date) + 1 - getWeekStart) % 7

startOfMonth(date) == subtract(date, Days(date.day - 1))

startOfYear(date) == startOfMonth(subtract(date, Duration(0, date.month - 1, 0, 0)))

startOfWeek(date) == subtract(date, Days(getDayOfWeek(date)))

\* ------------------------------------------------------------------------
\* Alignment helpers (./utils)
\* ------------------------------------------------------------------------

isInvalid(date, minValue, maxValue) ==
    \/ (minValue # NoDate /\ compare(date, minValue) < 0)
    \/ (maxValue # NoDate /\ compare(date, maxValue) > 0)

constrainValue(date, minValue, maxValue) ==
    LET d1 == IF minValue # NoDate THEN maxDate(date, minValue) ELSE date
    IN  IF maxValue # NoDate THEN minDate(d1, maxValue) ELSE d1

\* Align to the start of the largest unit of the duration.
alignStartRaw(date, duration) ==
    IF duration.years # 0 THEN startOfYear(date)
    ELSE IF duration.months # 0 THEN startOfMonth(date)
    ELSE IF duration.weeks # 0 THEN startOfWeek(date)
    ELSE date

\* The duration with 1 taken from its smallest unit.
alignEndDuration(duration) ==
    IF duration.days # 0 THEN [duration EXCEPT !.days = @ - 1]
    ELSE IF duration.weeks # 0 THEN [duration EXCEPT !.weeks = @ - 1]
    ELSE IF duration.months # 0 THEN [duration EXCEPT !.months = @ - 1]
    ELSE IF duration.years # 0 THEN [duration EXCEPT !.years = @ - 1]
    ELSE duration

alignEndRaw(date, duration) ==
    subtract(alignStartRaw(date, duration), alignEndDuration(duration))

constrainStart(date, aligned, duration, minValue, maxValue) ==
    LET a1 == IF minValue # NoDate /\ compare(date, minValue) >= 0
              THEN maxDate(aligned, alignStartRaw(minValue, duration))
              ELSE aligned
    IN  IF maxValue # NoDate /\ compare(date, maxValue) <= 0
        THEN minDate(a1, alignEndRaw(maxValue, duration))
        ELSE a1

alignStart(date, duration, minValue, maxValue) ==
    constrainStart(date, alignStartRaw(date, duration), duration, minValue, maxValue)

alignEnd(date, duration, minValue, maxValue) ==
    constrainStart(date, alignEndRaw(date, duration), duration, minValue, maxValue)

halfOf(n) ==
    LET h == n \div 2
    IN  IF h > 0 /\ n % 2 = 0 THEN h - 1 ELSE h

alignCenter(date, duration, minValue, maxValue) ==
    LET halfDuration == Duration(halfOf(duration.years), halfOf(duration.months),
                                 halfOf(duration.weeks), halfOf(duration.days))
    IN  constrainStart(date, subtract(alignStartRaw(date, duration), halfDuration),
                       duration, minValue, maxValue)

\* ------------------------------------------------------------------------
\* Date values (a date with an optional time of day and time zone)
\* ------------------------------------------------------------------------

\* A DateValue: a CalendarDate, or one with a time (hasTime: it has an hour
\* field), or one with a time and a time zone.
DateValue(date, hasTime, hour, timeZone) ==
    [calendar |-> date.calendar, year |-> date.year, month |-> date.month,
     day |-> date.day, hasTime |-> hasTime, hour |-> hour, timeZone |-> timeZone]

\* A CalendarDate seen as a DateValue without time.
plainValue(date) == DateValue(date, FALSE, 0, "")

NoValue == plainValue(NoDate)

\* toCalendarDate(value): the date part alone.
toCalendarDate(value) ==
    CalendarDate(value.calendar, value.year, value.month, value.day)

\* value.set(fields): the year, month and day of fields; the rest is kept.
setFields(value, fields) ==
    [value EXCEPT !.year = fields.year, !.month = fields.month, !.day = fields.day]

\* ------------------------------------------------------------------------
\* Inputs of the model
\* ------------------------------------------------------------------------

FirstDay == gregorianToJulianDay(2021, 12, 22)

LastDay == FirstDay + MaxDays - 1

\* The days of the range, and the same days one year later (the targets of a
\* step of one year).
InRange(date) ==
    \/ toJulianDay(date) \in FirstDay..LastDay
    \/ toJulianDay(date) - 365 \in FirstDay..LastDay

G(y, m, d) == CalendarDate("gregory", y, m, d)

\* today(timeZone), in the Gregorian calendar.
today == G(2022, 1, 15)

VisibleDurations ==
    {Days(3), Duration(0, 0, 2, 0), Duration(0, 1, 0, 0), Duration(1, 0, 0, 0)}

\* The props of a calendar (CalendarStateOptions).  isDateUnavailable is
\* given as the set of the days it holds for, empty when it is not given.
Props(vd, minV, maxV, align, dis, ro, defV, defF) ==
    [visibleDuration |-> vd, minValue |-> minV, maxValue |-> maxV,
     selectionAlignment |-> align, isDisabled |-> dis, isReadOnly |-> ro,
     defaultValue |-> defV, defaultFocusedValue |-> defF,
     isDateUnavailable |-> {}]

\* Calendars for the focus operations: each bound is given or absent, and the
\* focused date ranges over FirstDay..LastDay as far as the bounds allow.
NavProps ==
    { Props(vd, minV, maxV, "center", FALSE, FALSE, NoValue, NoDate) :
        vd \in VisibleDurations,
        minV \in {NoDate, G(2021, 12, 29)},
        maxV \in {NoDate, G(2022, 1, 27)} }

\* Calendars for the selection operations: both bounds are given, which keeps
\* the focused date, and with it the dates selectFocusedDate can emit, between
\* them.
SelectProps ==
    { Props(vd, G(2022, 1, 5), G(2022, 1, 12), "center", FALSE, FALSE, defV, NoDate) :
        vd \in {Days(3), Duration(0, 1, 0, 0)},
        defV \in {NoValue,
                  DateValue(CalendarDate("ethiopic", 2014, 5, 20), TRUE, 9, ""),
                  DateValue(G(2022, 2, 10), TRUE, 14, "UTC")} }

\* Days passed to setFocusedDate and selectDate.
InputDays == {G(2021, 12, 25), G(2022, 1, 10), G(2022, 2, 1)}

\* Cell dates, in the display calendar c.
CellDates(c) == { toCalendar(d, c) : d \in InputDays }

\* Dates in either calendar system.
InputDates == UNION { CellDates(c) : c \in Calendars }

\* ------------------------------------------------------------------------
\* State
\* ------------------------------------------------------------------------

VARIABLES
    props,                  \* the props the hook is called with
    calendar,               \* identifier of the display calendar
    lastCalendarIdentifier, \* the ref: the display calendar last seen
    value,                  \* the selected value (uncontrolled), or NoValue
    focusedDate,            \* the focused date (uncontrolled)
    startDate,              \* start of the visible window
    isFocused,
    visibleRange,           \* [start, end] returned by the last update pass
    phase,                  \* "idle": settled; "dirty": state or props changed,
                            \* pass pending; "render": a pass requested an update
    emitted,                \* the value last passed to onChange, or NoValue
    lastOp                  \* the operation being processed, with its date argument

\* State of a run of the branch action (src/.github/actions/branch/index.js)
\* and of the base repository it works on.
VARIABLES
    pc,                     \* position of run(): the API call it is about to make
    data,                   \* the pull request returned by pulls.get
    res,                    \* status of the response of getBranch, 0 before
    refs,                   \* the refs of the base repository: full name -> sha
    calls,                  \* the API calls made, each with the error it threw
    failed,                 \* the message passed to core.setFailed, if any
    unhandled               \* an error left run() uncaught

calendarVars == <<props, calendar, lastCalendarIdentifier, value, focusedDate, startDate,
                  isFocused, visibleRange, phase, emitted, lastOp>>

branchVars == <<pc, data, res, refs, calls, failed, unhandled>>

vars == <<calendarVars, branchVars>>

\* No run of the branch action: the state of its variables in the
\* specifications of the calendar.
NoData == [login |-> "", headRef |-> "", headSha |-> "", merge_commit_sha |-> ""]

NoMessage == ""

branchNotRun ==
    /\ pc = "none"
    /\ data = NoData
    /\ res = 0
    /\ refs = <<>>
    /\ calls = <<>>
    /\ failed = NoMessage
    /\ unhandled = FALSE

visibleDuration == props.visibleDuration

minValue == props.minValue

maxValue == props.maxValue

Op(name, date) == [name |-> name, date |-> date]

\* endDate: startDate.add(visibleDuration).subtract({days: 1})
endDate(start) == subtract(add(start, visibleDuration), Days(1))

\* calendarDateValue: the value's date in the display calendar
calendarDateValue ==
    IF value # NoValue THEN toCalendar(toCalendarDate(value), calendar) ELSE NoDate

\* defaultFocusedCalendarDate for props p, selected value v, display calendar c
defaultFocusedCalendarDate(p, v, c) ==
    constrainValue(
        IF p.defaultFocusedValue # NoDate
        THEN toCalendar(p.defaultFocusedValue, c)
        ELSE IF v # NoValue THEN toCalendar(toCalendarDate(v), c)
        ELSE toCalendar(today, c),
        p.minValue, p.maxValue)

\* Mutant of initialStartDate: selectionAlignment is ignored.
initialStartDateCentered(p, focused) ==
    alignCenter(focused, p.visibleDuration, p.minValue, p.maxValue)

\* The initial startDate, placed by selectionAlignment
initialStartDate(p, focused) ==
    IF p.selectionAlignment = "start"
    THEN alignStart(focused, p.visibleDuration, p.minValue, p.maxValue)
    ELSE IF p.selectionAlignment = "end"
    THEN alignEnd(focused, p.visibleDuration, p.minValue, p.maxValue)
    ELSE alignCenter(focused, p.visibleDuration, p.minValue, p.maxValue)

\* The state after the hooks are initialised, for props drawn from PS.
InitFrom(PS) ==
    \E p \in PS, c \in Calendars :
        LET f == defaultFocusedCalendarDate(p, p.defaultValue, c)
            s == initialStartDate(p, f)
        IN  /\ props = p
            /\ calendar = c
            /\ lastCalendarIdentifier = c
            /\ value = p.defaultValue
            /\ focusedDate = f
            /\ startDate = s
            /\ isFocused = FALSE
            /\ visibleRange = [start |-> s,
                               end |-> subtract(add(s, p.visibleDuration), Days(1))]
            /\ phase = "render"
            /\ emitted = NoValue
            /\ lastOp = Op("mount", NoDate)
            /\ branchNotRun

Init == InitFrom(SelectProps)

\* ------------------------------------------------------------------------
\* The update pass (one execution of the hook body)
\* ------------------------------------------------------------------------

NoRequest == [focusedDate |-> NoDate, startDate |-> NoDate]

\* Mutant of calendarReset: the fields of the focused date are kept and only
\* labelled with the new calendar.
calendarResetRelabel(f) ==
    IF calendar # lastCalendarIdentifier
    THEN LET newFocusedDate == [f EXCEPT !.calendar = calendar]
         IN  [focusedDate |-> newFocusedDate,
              startDate |-> alignCenter(newFocusedDate, visibleDuration, minValue, maxValue)]
    ELSE NoRequest

\* Reset focused date and visible range when calendar changes: the state
\* updates requested for focused date f.
calendarReset(f) ==
    IF calendar # lastCalendarIdentifier
    THEN LET newFocusedDate == toCalendar(f, calendar)
         IN  [focusedDate |-> newFocusedDate,
              startDate |-> alignCenter(newFocusedDate, visibleDuration, minValue, maxValue)]
    ELSE NoRequest

\* Mutant of reconcile: a focused date after the window is not followed.
reconcileNoAlignStart(f, s) ==
    IF isInvalid(f, minValue, maxValue)
    THEN [focusedDate |-> constrainValue(f, minValue, maxValue), startDate |-> NoDate]
    ELSE IF compare(f, s) < 0
    THEN [focusedDate |-> NoDate,
          startDate |-> alignEnd(f, visibleDuration, minValue, maxValue)]
    ELSE NoRequest

\* Mutant of reconcile: the window is realigned before the focused date is
\* looked at.
reconcileRealignFirst(f, s) ==
    IF compare(f, s) < 0
    THEN [focusedDate |-> NoDate,
          startDate |-> alignEnd(f, visibleDuration, minValue, maxValue)]
    ELSE IF compare(f, add(s, visibleDuration)) >= 0
    THEN [focusedDate |-> NoDate,
          startDate |-> alignStart(f, visibleDuration, minValue, maxValue)]
    ELSE IF isInvalid(f, minValue, maxValue)
    THEN [focusedDate |-> constrainValue(f, minValue, maxValue), startDate |-> NoDate]
    ELSE NoRequest

\* Mutant of reconcile: the window moves one page towards the focused date.
reconcilePageStep(f, s) ==
    IF isInvalid(f, minValue, maxValue)
    THEN [focusedDate |-> constrainValue(f, minValue, maxValue), startDate |-> NoDate]
    ELSE IF compare(f, s) < 0
    THEN [focusedDate |-> NoDate, startDate |-> subtract(s, visibleDuration)]
    ELSE IF compare(f, add(s, visibleDuration)) >= 0
    THEN [focusedDate |-> NoDate, startDate |-> add(s, visibleDuration)]
    ELSE NoRequest

\* Mutant of reconcile: a focused date out of the bounds is set again as it is.
reconcileNoClamp(f, s) ==
    IF isInvalid(f, minValue, maxValue)
    THEN [focusedDate |-> f, startDate |-> NoDate]
    ELSE IF compare(f, s) < 0
    THEN [focusedDate |-> NoDate,
          startDate |-> alignEnd(f, visibleDuration, minValue, maxValue)]
    ELSE IF compare(f, add(s, visibleDuration)) >= 0
    THEN [focusedDate |-> NoDate,
          startDate |-> alignStart(f, visibleDuration, minValue, maxValue)]
    ELSE NoRequest

\* Mutant of reconcile: the two alignments are exchanged.
reconcileSwapped(f, s) ==
    IF isInvalid(f, minValue, maxValue)
    THEN [focusedDate |-> constrainValue(f, minValue, maxValue), startDate |-> NoDate]
    ELSE IF compare(f, s) < 0
    THEN [focusedDate |-> NoDate,
          startDate |-> alignStart(f, visibleDuration, minValue, maxValue)]
    ELSE IF compare(f, add(s, visibleDuration)) >= 0
    THEN [focusedDate |-> NoDate,
          startDate |-> alignEnd(f, visibleDuration, minValue, maxValue)]
    ELSE NoRequest

\* Clamp the focused date, otherwise realign the window: the state updates
\* requested for focused date f and window start s.
reconcile(f, s) ==
    IF isInvalid(f, minValue, maxValue)
    THEN [focusedDate |-> constrainValue(f, minValue, maxValue), startDate |-> NoDate]
    ELSE IF compare(f, s) < 0
    THEN [focusedDate |-> NoDate,
          startDate |-> alignEnd(f, visibleDuration, minValue, maxValue)]
    ELSE IF compare(f, add(s, visibleDuration)) >= 0
    THEN [focusedDate |-> NoDate,
          startDate |-> alignStart(f, visibleDuration, minValue, maxValue)]
    ELSE NoRequest

\* The later of two requested updates of a state cell wins; cur when none.
lastSet(cur, first, second) ==
    IF second # NoDate THEN second ELSE IF first # NoDate THEN first ELSE cur

\* Mutant of passVisibleRange: the end is not taken back by one day.
passVisibleRangeNoDayBack ==
    [start |-> startDate, end |-> add(startDate, visibleDuration)]

\* The focused date and window start after the updates reconcile requests.
applyReconcile(f, s) ==
    LET r == reconcile(f, s)
    IN  [focusedDate |-> lastSet(f, NoDate, r.focusedDate),
         startDate |-> lastSet(s, NoDate, r.startDate)]

\* The visible range the pass returns: computed from the pass's own startDate.
passVisibleRange == [start |-> startDate, end |-> endDate(startDate)]

UpdatePass ==
    LET r1 == calendarReset(focusedDate)
        r2 == reconcile(focusedDate, startDate)
    IN  /\ phase \in {"dirty", "render"}
        /\ visibleRange' = passVisibleRange
        /\ focusedDate' = lastSet(focusedDate, r1.focusedDate, r2.focusedDate)
        /\ startDate' = lastSet(startDate, r1.startDate, r2.startDate)
        /\ lastCalendarIdentifier' = calendar
        /\ phase' = IF r1 = NoRequest /\ r2 = NoRequest THEN "idle" ELSE "render"
        /\ lastOp' = IF r1 = NoRequest /\ r2 = NoRequest THEN Op("none", NoDate) ELSE lastOp
        /\ UNCHANGED <<props, calendar, value, isFocused, emitted>>
        /\ UNCHANGED branchVars

\* The display calendar changes (the locale prop) on a settled calendar: seen
\* by the next pass.
switchCalendar(c) ==
    /\ phase = "idle"
    /\ c # calendar
    /\ calendar' = c
    /\ phase' = "dirty"
    /\ lastOp' = Op("switchCalendar", NoDate)
    /\ UNCHANGED <<props, lastCalendarIdentifier, value, focusedDate, startDate,
                   isFocused, visibleRange, emitted>>
    /\ UNCHANGED branchVars

\* ------------------------------------------------------------------------
\* Operations of the returned state object
\* ------------------------------------------------------------------------

\* Mutant of focusCell: the date is not constrained.
focusCellUnconstrained(date) == date

\* focusCell(date): the focused date it sets
focusCell(date) == constrainValue(date, minValue, maxValue)

\* An operation called on a settled calendar sets the focused date, the window
\* start and isFocused, and schedules an update pass.
Handler(name, date, f, s, foc) ==
    /\ phase = "idle"
    /\ InRange(f)
    /\ focusedDate' = f
    /\ startDate' = s
    /\ isFocused' = foc
    /\ lastOp' = Op(name, date)
    /\ phase' = "dirty"
    /\ UNCHANGED <<props, calendar, lastCalendarIdentifier, value, visibleRange, emitted>>
    /\ UNCHANGED branchVars

setFocusedDate(date) ==
    Handler("setFocusedDate", date, focusCell(date), startDate, TRUE)

\* Mutant of focusNextDay: it also marks the calendar focused.
focusNextDayFocuses ==
    Handler("focusNextDay", NoDate, focusCell(add(focusedDate, Days(1))),
            startDate, TRUE)

focusNextDay ==
    Handler("focusNextDay", NoDate, focusCell(add(focusedDate, Days(1))),
            startDate, isFocused)

focusPreviousDay ==
    Handler("focusPreviousDay", NoDate, focusCell(subtract(focusedDate, Days(1))),
            startDate, isFocused)

\* Mutant of nextPageFocus: the new focused date is not constrained.
nextPageFocusUnconstrained == add(focusedDate, visibleDuration)

\* focusNextPage / focusPreviousPage: the focused date and window start they
\* set, from the focusedDate and startDate of the last pass.
nextPageFocus == constrainValue(add(focusedDate, visibleDuration), minValue, maxValue)

\* Mutant of nextPageStart: the window is left where it is.
nextPageStartUnmoved == startDate

nextPageStart ==
    constrainStart(focusedDate, add(startDate, visibleDuration), visibleDuration,
                   minValue, maxValue)

previousPageFocus ==
    constrainValue(subtract(focusedDate, visibleDuration), minValue, maxValue)

previousPageStart ==
    constrainStart(focusedDate, subtract(startDate, visibleDuration), visibleDuration,
                   minValue, maxValue)

focusNextPage ==
    Handler("focusNextPage", NoDate, nextPageFocus, nextPageStart, isFocused)

focusPreviousPage ==
    Handler("focusPreviousPage", NoDate, previousPageFocus, previousPageStart, isFocused)

Weeks(n) == Duration(0, 0, n, 0)

Months(n) == Duration(0, n, 0, 0)

Years(n) == Duration(n, 0, 0, 0)

\* visibleDuration.weeks || visibleDuration.months || visibleDuration.years
hasWeeksMonthsOrYears ==
    visibleDuration.weeks # 0 \/ visibleDuration.months # 0 \/ visibleDuration.years # 0

nextRowFocus ==
    IF visibleDuration.days # 0 THEN nextPageFocus
    ELSE IF hasWeeksMonthsOrYears THEN focusCell(add(focusedDate, Weeks(1)))
    ELSE focusedDate

previousRowFocus ==
    IF visibleDuration.days # 0 THEN previousPageFocus
    ELSE IF hasWeeksMonthsOrYears THEN focusCell(subtract(focusedDate, Weeks(1)))
    ELSE focusedDate

focusNextRow ==
    Handler("focusNextRow", NoDate, nextRowFocus,
            IF visibleDuration.days # 0 THEN nextPageStart ELSE startDate, isFocused)

focusPreviousRow ==
    Handler("focusPreviousRow", NoDate, previousRowFocus,
            IF visibleDuration.days # 0 THEN previousPageStart ELSE startDate, isFocused)

focusPageStart ==
    Handler("focusPageStart", NoDate, focusCell(startDate), startDate, isFocused)

\* endDate is the one the last pass computed.
focusPageEnd ==
    Handler("focusPageEnd", NoDate, focusCell(visibleRange.end), startDate, isFocused)

\* Mutant of nextSectionFocus: a window of months or years steps by a month.
nextSectionFocusByMonth ==
    IF visibleDuration.days # 0 THEN nextPageFocus
    ELSE IF hasWeeksMonthsOrYears THEN focusCell(add(focusedDate, Months(1)))
    ELSE focusedDate

nextSectionFocus ==
    IF visibleDuration.days # 0 THEN nextPageFocus
    ELSE IF visibleDuration.weeks # 0 THEN focusCell(add(focusedDate, Months(1)))
    ELSE IF visibleDuration.months # 0 \/ visibleDuration.years # 0
    THEN focusCell(add(focusedDate, Years(1)))
    ELSE focusedDate

previousSectionFocus ==
    IF visibleDuration.days # 0 THEN previousPageFocus
    ELSE IF visibleDuration.weeks # 0 THEN focusCell(subtract(focusedDate, Months(1)))
    ELSE IF visibleDuration.months # 0 \/ visibleDuration.years # 0
    THEN focusCell(subtract(focusedDate, Years(1)))
    ELSE focusedDate

focusNextSection ==
    Handler("focusNextSection", NoDate, nextSectionFocus,
            IF visibleDuration.days # 0 THEN nextPageStart ELSE startDate, isFocused)

focusPreviousSection ==
    Handler("focusPreviousSection", NoDate, previousSectionFocus,
            IF visibleDuration.days # 0 THEN previousPageStart ELSE startDate, isFocused)

\* setFocused(b): focus and blur tracking
setFocused(b) ==
    Handler("setFocused", NoDate, focusedDate, startDate, b)

\* Mutant of setValueEmits: a read-only calendar emits.
setValueEmitsWhenReadOnly == ~props.isDisabled

\* setValue(newValue): whether it emits, and the value it passes to onChange
setValueEmits == ~props.isDisabled /\ ~props.isReadOnly

\* Mutant of setValue: the date is emitted in the calendar it came in.
setValueNoConversion(newValue) ==
    IF value # NoValue /\ value.hasTime
    THEN setFields(value, newValue)
    ELSE plainValue(newValue)

\* Mutant of setValue: the time of the value is dropped.
setValueDropsTime(newValue) ==
    plainValue(toCalendar(newValue, IF value # NoValue THEN value.calendar ELSE "gregory"))

setValue(newValue) ==
    LET inCalendar ==
            toCalendar(newValue, IF value # NoValue THEN value.calendar ELSE "gregory")
    IN  IF value # NoValue /\ value.hasTime
        THEN setFields(value, inCalendar)
        ELSE plainValue(inCalendar)

\* selectDate / selectFocusedDate: setValue(date) on a settled calendar
Select(name, date, newValue) ==
    /\ phase = "idle"
    /\ lastOp' = Op(name, date)
    /\ value' = IF setValueEmits THEN setValue(newValue) ELSE value
    /\ emitted' = IF setValueEmits THEN setValue(newValue) ELSE emitted
    /\ phase' = IF setValueEmits THEN "dirty" ELSE phase
    /\ UNCHANGED <<props, calendar, lastCalendarIdentifier, focusedDate, startDate,
                   isFocused, visibleRange>>
    /\ UNCHANGED branchVars

selectFocusedDate == Select("selectFocusedDate", NoDate, focusedDate)

selectDate(date) == Select("selectDate", date, date)

\* The queries of the returned state object, for a cell date.
isCellUnavailable(date) == \E d \in props.isDateUnavailable : isSameDay(date, d)

\* Mutant of isCellDisabled: the visible range is not looked at.
isCellDisabledAnywhere(date) ==
    props.isDisabled \/ isInvalid(date, minValue, maxValue)

isCellDisabled(date) ==
    \/ props.isDisabled
    \/ compare(date, startDate) < 0
    \/ compare(date, endDate(startDate)) > 0
    \/ isInvalid(date, minValue, maxValue)

isSelected(date) ==
    /\ calendarDateValue # NoDate
    /\ isSameDay(date, calendarDateValue)
    /\ ~isCellDisabled(date)
    /\ ~isCellUnavailable(date)

isCellFocused(date) == isFocused /\ isSameDay(date, focusedDate)

isPreviousVisibleRangeInvalid ==
    isInvalid(subtract(startDate, Days(1)), minValue, maxValue)

isNextVisibleRangeInvalid ==
    isInvalid(add(endDate(startDate), Days(1)), minValue, maxValue)

\* The focus operations, the calendar switch and the update pass.
NextNav ==
    \/ UpdatePass
    \/ \E c \in Calendars : switchCalendar(c)
    \/ \E d \in CellDates(calendar) : setFocusedDate(d)
    \/ focusNextDay
    \/ focusPreviousDay
    \/ focusNextRow
    \/ focusPreviousRow
    \/ focusNextPage
    \/ focusPreviousPage
    \/ focusPageStart
    \/ focusPageEnd
    \/ focusNextSection
    \/ focusPreviousSection
    \/ \E b \in BOOLEAN : setFocused(b)

\* Every operation.
Next ==
    \/ NextNav
    \/ selectFocusedDate
    \/ \E d \in InputDates : selectDate(d)

\* The calendars of SelectProps, under every operation.
Spec == Init /\ [][Next]_vars

\* The calendars of NavProps, under the focus operations.
InitNav == InitFrom(NavProps)

SpecNav == InitNav /\ [][NextNav]_vars

\* Calendars that are disabled, read-only, both or neither, with or without
\* an unavailable day.
DisabledProps ==
    { [Props(Days(3), G(2022, 1, 5), G(2022, 1, 12), "center", dis, ro, defV, NoDate)
         EXCEPT !.isDateUnavailable = u] :
        dis \in BOOLEAN, ro \in BOOLEAN,
        defV \in {NoValue, DateValue(G(2022, 2, 10), TRUE, 14, "UTC")},
        u \in {{}, {G(2022, 1, 10)}} }

InitSelect == InitFrom(DisabledProps)

SpecSelect == InitSelect /\ [][Next]_vars

\* ------------------------------------------------------------------------
\* Mounting: every selection alignment, default value and default focus
\* ------------------------------------------------------------------------

\* selectionAlignment: 'start', 'center', 'end', or "none" when not given.
Alignments == {"start", "center", "end", "none"}

MountProps ==
    { Props(vd, minV, maxV, align, FALSE, FALSE, defV, defF) :
        vd \in VisibleDurations,
        minV \in {NoDate, G(2021, 12, 29), G(2022, 1, 9)},
        maxV \in {NoDate, G(2022, 1, 27), G(2022, 1, 10)},
        align \in Alignments,
        defV \in {NoValue, DateValue(CalendarDate("ethiopic", 2014, 5, 20), TRUE, 9, "")},
        defF \in {NoDate, G(2021, 12, 25), G(2022, 1, 10)} }

InitMount == InitFrom(MountProps)

NextMount == UpdatePass

SpecMount == InitMount /\ [][NextMount]_vars

\* ------------------------------------------------------------------------
\* The update pass from an arbitrary state
\* ------------------------------------------------------------------------

\* The days of the modelled range, in calendar c.
RangeDates(c) == { fromJulianDay(c, jd) : jd \in FirstDay..(FirstDay + ReconDays - 1) }

\* The bounds and the visible duration are props: a pass may find a focused
\* date and a window start, left by earlier passes, that are out of the bounds
\* or apart from each other.
InitRecon ==
    \E p \in NavProps, c \in Calendars :
      \E f \in RangeDates(c), s \in RangeDates(c) :
        /\ props = p
        /\ calendar = c
        /\ lastCalendarIdentifier = c
        /\ value = NoValue
        /\ focusedDate = f
        /\ startDate = s
        /\ isFocused = FALSE
        /\ visibleRange = [start |-> s,
                           end |-> subtract(add(s, p.visibleDuration), Days(1))]
        /\ phase = "dirty"
        /\ emitted = NoValue
        /\ lastOp = Op("props", NoDate)
        /\ branchNotRun

NextRecon == UpdatePass

SpecRecon == InitRecon /\ [][NextRecon]_vars

\* Bounds for the repeated pass: absent, wide, and two days apart (narrower
\* than every window).
TermBounds ==
    { <<NoDate, NoDate>>, <<G(2021, 12, 29), G(2022, 1, 27)>>,
      <<G(2022, 1, 9), G(2022, 1, 10)>> }

TermProps ==
    { Props(vd, b[1], b[2], "center", FALSE, FALSE, NoValue, NoDate) :
        vd \in VisibleDurations, b \in TermBounds }

\* Any focused date and window start, with the display calendar the last
\* pass saw or the other one.
InitTerm ==
    \E p \in TermProps, c \in Calendars, lc \in Calendars :
      \E f \in RangeDates(c), s \in RangeDates(c) :
        /\ props = p
        /\ calendar = c
        /\ lastCalendarIdentifier = lc
        /\ value = NoValue
        /\ focusedDate = f
        /\ startDate = s
        /\ isFocused = FALSE
        /\ visibleRange = [start |-> s,
                           end |-> subtract(add(s, p.visibleDuration), Days(1))]
        /\ phase = "dirty"
        /\ emitted = NoValue
        /\ lastOp = Op("props", NoDate)
        /\ branchNotRun

NextTerm == UpdatePass

\* The pass, repeated for as long as it requests an update.
SpecTerm == InitTerm /\ [][NextTerm]_vars

\* ------------------------------------------------------------------------
\* The branch action: run() of src/.github/actions/branch/index.js
\* ------------------------------------------------------------------------

\* Pull requests of forks: the author's login, the head ref and its commit,
\* and the test merge commit.
Logins == {"alice", "bob"}

HeadRefs == {"main", "fix"}

PullRequests ==
    { [login |-> l, headRef |-> r, headSha |-> h, merge_commit_sha |-> m] :
        l \in Logins, r \in HeadRefs, h \in {"h1"}, m \in {"m1", "m2"} }

\* const branch = `${data.user.login}-${data.head.ref}`
branch(d) == d.login \o "-" \o d.headRef

\* const ref = `refs/heads/${branch}`
ref(d) == "refs/heads/" \o branch(d)

\* Mutant of sha: the head commit of the fork is taken.
shaOfHead(d) == d.headSha

\* const sha = data.merge_commit_sha
sha(d) == d.merge_commit_sha

\* The ref passed to updateRef: `heads/${branch}`
updateRefName(d) == "heads/" \o branch(d)

\* The full name of the ref that the git refs API updates for a ref name.
fullRef(name) == "refs/" \o name

\* The refs of the base repository that a run can touch; a ref is absent
\* (NoSha) or points at a commit.
RefNames == { "refs/heads/" \o l \o "-" \o r : l \in Logins, r \in HeadRefs }

NoSha == ""

\* Errors thrown by an API call: name, status (0: none) and message.
NoError == [name |-> "", status |-> 0, message |-> ""]

HttpError(status, message) == [name |-> "HttpError", status |-> status, message |-> message]

NotFound == HttpError(404, "Not Found")

Errors ==
    { NotFound,
      HttpError(500, "Server Error"),
      HttpError(422, "Reference update failed"),
      [name |-> "Error", status |-> 404, message |-> "not an HTTP error"],
      [name |-> "FetchError", status |-> 0, message |-> "network"] }

Call(api, error) == [api |-> api, error |-> error]

InitBranchRun ==
    /\ pc = "pulls.get"
    /\ data = NoData
    /\ res = 0
    /\ refs \in [RefNames -> {NoSha, "old"}]
    /\ calls = <<>>
    /\ failed = NoMessage
    /\ unhandled = FALSE

\* Mutant of catcher: the name of the error is not looked at.
catcherAnyNotFound(at, error) ==
    IF at = "repos.getBranch" /\ error.status = 404 THEN "inner" ELSE "outer"

\* The catch clause that handles an error thrown by the call at: the inner
\* one, which goes on to create the branch, for an HttpError with status 404
\* thrown by getBranch; the outer one for everything else, an error rethrown
\* by the inner clause or thrown inside it included.
catcher(at, error) ==
    IF at = "repos.getBranch" /\ error.name = "HttpError" /\ error.status = 404
    THEN "inner"
    ELSE "outer"

\* The call at throws error: where run() goes on.
Throw(at, error) ==
    /\ calls' = Append(calls, Call(at, error))
    /\ IF catcher(at, error) = "inner"
       THEN pc' = "git.createRef" /\ UNCHANGED <<failed, unhandled>>
       ELSE IF catcher(at, error) = "outer"
       THEN pc' = "done" /\ failed' = error.message /\ UNCHANGED unhandled
       ELSE pc' = "done" /\ unhandled' = TRUE /\ UNCHANGED failed

\* await octokit.rest.pulls.get(...)
pullsGet ==
    /\ pc = "pulls.get"
    /\ \/ \E d \in PullRequests :
             /\ data' = d
             /\ calls' = Append(calls, Call("pulls.get", NoError))
             /\ pc' = "repos.getBranch"
             /\ UNCHANGED <<failed, unhandled>>
       \/ \E e \in Errors : Throw("pulls.get", e) /\ UNCHANGED data
    /\ UNCHANGED <<res, refs>>
    /\ UNCHANGED calendarVars

\* await octokit.rest.repos.getBranch(...): status 200 for a branch that
\* exists, an HttpError with status 404 for one that does not, or another
\* error.
getBranch ==
    /\ pc = "repos.getBranch"
    /\ \/ /\ refs[ref(data)] # NoSha
          /\ res' = 200
          /\ calls' = Append(calls, Call("repos.getBranch", NoError))
          /\ pc' = "git.updateRef"
          /\ UNCHANGED <<failed, unhandled>>
       \/ /\ refs[ref(data)] = NoSha
          /\ Throw("repos.getBranch", NotFound)
          /\ UNCHANGED res
       \/ \E e \in Errors \ {NotFound} :
             Throw("repos.getBranch", e) /\ UNCHANGED res
    /\ UNCHANGED <<data, refs>>
    /\ UNCHANGED calendarVars

\* await octokit.rest.git.createRef({ref, sha}), then return: the ref is
\* created unless it exists; the call may fail.
createRef ==
    /\ pc = "git.createRef"
    /\ \/ /\ refs[ref(data)] = NoSha
          /\ refs' = [refs EXCEPT ![ref(data)] = sha(data)]
          /\ calls' = Append(calls, Call("git.createRef", NoError))
          /\ pc' = "done"
          /\ UNCHANGED <<failed, unhandled>>
       \/ \E e \in Errors : Throw("git.createRef", e) /\ UNCHANGED refs
    /\ UNCHANGED <<data, res>>
    /\ UNCHANGED calendarVars

\* if (res.status === 200) await octokit.rest.git.updateRef({sha, ref:
\* `heads/${branch}`, force: true}): the ref is moved; the call may fail.
updateRef ==
    /\ pc = "git.updateRef"
    /\ IF res = 200
       THEN \/ /\ fullRef(updateRefName(data)) \in DOMAIN refs
               /\ refs' = [refs EXCEPT ![fullRef(updateRefName(data))] = sha(data)]
               /\ calls' = Append(calls, Call("git.updateRef", NoError))
               /\ pc' = "done"
               /\ UNCHANGED <<failed, unhandled>>
            \/ \E e \in Errors : Throw("git.updateRef", e) /\ UNCHANGED refs
       ELSE pc' = "done" /\ UNCHANGED <<refs, calls, failed, unhandled>>
    /\ UNCHANGED <<data, res>>
    /\ UNCHANGED calendarVars

NextBranch ==
    \/ pullsGet
    \/ getBranch
    \/ createRef
    \/ updateRef

\* A run of the action, for every pull request and every state of the refs;
\* the calendar is left as mounted.  Each await of run() resolves or rejects.
InitBranch ==
    /\ InitBranchRun
    /\ \E p \in NavProps, c \in Calendars :
          LET f == defaultFocusedCalendarDate(p, p.defaultValue, c)
              s == initialStartDate(p, f)
          IN  /\ props = p
              /\ p.visibleDuration = Days(3) /\ p.minValue = NoDate /\ p.maxValue = NoDate
              /\ calendar = c
              /\ c = "gregory"
              /\ lastCalendarIdentifier = c
              /\ value = p.defaultValue
              /\ focusedDate = f
              /\ startDate = s
              /\ isFocused = FALSE
              /\ visibleRange = [start |-> s,
                                 end |-> subtract(add(s, p.visibleDuration), Days(1))]
              /\ phase = "render"
              /\ emitted = NoValue
              /\ lastOp = Op("mount", NoDate)

SpecBranch == InitBranch /\ [][NextBranch]_vars /\ WF_vars(NextBranch)

\* ------------------------------------------------------------------------
\* Properties
\* ------------------------------------------------------------------------

JD(date) == toJulianDay(date)

settled == phase = "idle"

\* date lies within the bounds that are given
withinBounds(date) ==
    /\ minValue # NoDate => JD(minValue) <= JD(date)
    /\ maxValue # NoDate => JD(date) <= JD(maxValue)

\* C1: the focused date lies within [minValue, maxValue], for each bound that
\* is given, after any sequence of focus operations and calendar switches:
\* in every reachable state, hence in every settled one.
C1_FocusedDateWithinBounds == withinBounds(focusedDate)

\* C1 witness: a settled calendar displayed in the Ethiopic calendar whose
\* focused date is the (Gregorian) maxValue itself: a focus operation was
\* clamped to the bound.
C1_Witness ==
    /\ settled
    /\ calendar = "ethiopic"
    /\ maxValue # NoDate
    /\ focusedDate = maxValue

\* C2: once the update pass has settled, the visible window contains the
\* focused date: startDate <= focusedDate < startDate + visibleDuration, and
\* visibleRange.start <= focusedDate <= visibleRange.end.
C2_WindowContainsFocusedDate ==
    settled =>
        /\ JD(startDate) <= JD(focusedDate)
        /\ JD(focusedDate) < JD(add(startDate, visibleDuration))
        /\ JD(visibleRange.start) <= JD(focusedDate)
        /\ JD(focusedDate) <= JD(visibleRange.end)

\* C2 witness: a settled calendar with minValue given whose window starts
\* before minValue and whose focused date is minValue.
C2_Witness ==
    /\ settled
    /\ minValue # NoDate
    /\ focusedDate = minValue
    /\ JD(startDate) < JD(minValue)
    /\ JD(focusedDate) <= JD(visibleRange.end)

\* The number of days of the window starting at start, counted on the calendar
\* of start: the days of visibleDuration, 7 days a week, the days of the
\* months and of the years the window runs through.
windowDays(start) == JD(add(start, visibleDuration)) - JD(start)

\* C3: in every reachable state visibleRange.end is visibleRange.start plus
\* visibleDuration minus one day, so the range spans exactly visibleDuration
\* (3 days, 14 days, a whole month or a whole year in the model), also after
\* page navigation with bounds; a settled range starts at startDate.
C3_RangeSpansVisibleDuration ==
    /\ visibleRange.end = subtract(add(visibleRange.start, visibleDuration), Days(1))
    /\ JD(visibleRange.end) - JD(visibleRange.start) + 1 = windowDays(visibleRange.start)
    /\ visibleDuration.days # 0 =>
           JD(visibleRange.end) - JD(visibleRange.start) + 1 = visibleDuration.days
    /\ visibleDuration.weeks # 0 =>
           JD(visibleRange.end) - JD(visibleRange.start) + 1 = 7 * visibleDuration.weeks
    /\ settled => visibleRange.start = startDate

\* C3 witness: a settled window, with maxValue given, that page navigation or
\* realignment has moved and that ends after maxValue.
C3_Witness ==
    /\ settled
    /\ maxValue # NoDate
    /\ JD(visibleRange.end) > JD(maxValue)
    /\ JD(visibleRange.start) > JD(today)
    /\ visibleRange.start = startDate

\* A pass that sees the display calendar changed.
calendarSwitchPass ==
    /\ phase \in {"dirty", "render"}
    /\ calendar # lastCalendarIdentifier
    /\ lastCalendarIdentifier' = calendar

\* C4: the pass that processes a change of the display calendar leaves the
\* focused date on the same absolute day, expressed in the new calendar; and
\* converting a focused date to the other calendar and back gives it again.
C4_SwitchKeepsAbsoluteDay ==
    /\ [][calendarSwitchPass =>
            /\ JD(focusedDate') = JD(focusedDate)
            /\ focusedDate'.calendar = calendar]_vars
    /\ [](\A c \in Calendars :
            /\ JD(toCalendar(focusedDate, c)) = JD(focusedDate)
            /\ toCalendar(toCalendar(focusedDate, c), focusedDate.calendar) = focusedDate)

\* C4 witness: the pass has processed a switch to the Ethiopic calendar, and
\* the focused date is an Ethiopic date.
C4_Witness ==
    /\ phase = "render"
    /\ lastOp.name = "switchCalendar"
    /\ calendar = "ethiopic"
    /\ lastCalendarIdentifier = "ethiopic"
    /\ focusedDate.calendar = "ethiopic"
    /\ focusedDate.year = 2014

\* A selection that emits: selectDate(date) or selectFocusedDate, called on a
\* calendar that is neither disabled nor read-only.
selectStep ==
    /\ phase = "idle"
    /\ lastOp'.name \in {"selectDate", "selectFocusedDate"}
    /\ phase' = "dirty"

\* The date a selection step selects.
selectedDate == IF lastOp'.name = "selectDate" THEN lastOp'.date ELSE focusedDate

\* C5: a value emitted by selectDate or selectFocusedDate is in the calendar
\* of the current value, or Gregorian when there is none, whatever the display
\* calendar and the calendar of the selected date; it is the selected day.
C5_EmittedInOriginalCalendar ==
    [][selectStep =>
         /\ emitted'.calendar = (IF value # NoValue THEN value.calendar ELSE "gregory")
         /\ JD(emitted') = JD(selectedDate)
         /\ value' = emitted']_vars

\* C5 witness: with no value to start from, an Ethiopic date was selected on
\* a calendar displayed in the Ethiopic calendar, and a Gregorian date emitted.
C5_Witness ==
    /\ phase = "dirty"
    /\ lastOp.name = "selectDate"
    /\ lastOp.date.calendar = "ethiopic"
    /\ calendar = "ethiopic"
    /\ props.defaultValue = NoValue
    /\ emitted.calendar = "gregory"
    /\ JD(emitted) = JD(lastOp.date)

\* C6: when the current value has a time of day, the emitted value keeps its
\* hour and time zone and takes the selected day; when it has none, or there
\* is no value, the emitted value is a plain date.
C6_EmittedKeepsTime ==
    [][selectStep =>
         IF value # NoValue /\ value.hasTime
         THEN /\ emitted'.hasTime
              /\ emitted'.hour = value.hour
              /\ emitted'.timeZone = value.timeZone
              /\ emitted'.calendar = value.calendar
              /\ JD(emitted') = JD(selectedDate)
         ELSE /\ ~emitted'.hasTime
              /\ emitted'.timeZone = ""
              /\ JD(emitted') = JD(selectedDate)]_vars

\* C6 witness: the focused date was selected on a calendar whose value is
\* 14 h UTC on another day; the emitted value is 14 h UTC on the focused day.
C6_Witness ==
    /\ phase = "dirty"
    /\ lastOp.name = "selectFocusedDate"
    /\ emitted.hasTime
    /\ emitted.hour = 14
    /\ emitted.timeZone = "UTC"
    /\ JD(emitted) = JD(focusedDate)
    /\ JD(emitted) # JD(props.defaultValue)

\* The focused date that a request to focus Julian day t must give.
focusedAt(t, f) ==
    IF minValue # NoDate /\ t < JD(minValue) THEN f = minValue
    ELSE IF maxValue # NoDate /\ t > JD(maxValue) THEN f = maxValue
    ELSE JD(f) = t

\* C7: setFocusedDate(date) sets the focused date to minValue for a date below
\* it, to maxValue for a date above it and to date itself otherwise, and sets
\* isFocused; the operations that go through focusCell do the same with their
\* target (the next or previous day, the start or end of the visible range).
C7_FocusTargetClamped ==
    /\ [](phase = "dirty" /\ lastOp.name = "setFocusedDate" =>
            /\ isFocused
            /\ focusedAt(JD(lastOp.date), focusedDate)
            /\ withinBounds(lastOp.date) => focusedDate = lastOp.date)
    /\ [][phase = "idle" /\ lastOp'.name = "focusNextDay" =>
            focusedAt(JD(focusedDate) + 1, focusedDate')]_vars
    /\ [][phase = "idle" /\ lastOp'.name = "focusPreviousDay" =>
            focusedAt(JD(focusedDate) - 1, focusedDate')]_vars
    /\ [][phase = "idle" /\ lastOp'.name = "focusPageStart" =>
            focusedAt(JD(visibleRange.start), focusedDate')]_vars
    /\ [][phase = "idle" /\ lastOp'.name = "focusPageEnd" =>
            focusedAt(JD(visibleRange.end), focusedDate')]_vars

\* C7 witness: setFocusedDate was called with a date below minValue and the
\* focused date is minValue.
C7_Witness ==
    /\ phase = "dirty"
    /\ lastOp.name = "setFocusedDate"
    /\ minValue # NoDate
    /\ JD(lastOp.date) < JD(minValue)
    /\ focusedDate = minValue
    /\ isFocused

\* C8: every value emitted by selectDate or selectFocusedDate lies within
\* [minValue, maxValue].
C8_EmittedWithinBounds == emitted # NoValue => withinBounds(emitted)

\* The reconciliation step applied once, twice and three times.
once == applyReconcile(focusedDate, startDate)

twice == applyReconcile(once.focusedDate, once.startDate)

thrice == applyReconcile(twice.focusedDate, twice.startDate)

\* C9 as claimed: for every state the reconciliation step applied a second
\* time changes neither focusedDate nor startDate.
C9_ReconcileIdempotent == twice = once

\* C9 amended: the step is idempotent for every state whose focused date is
\* within the bounds; for a focused date out of bounds the first application
\* only clamps it, the second may realign the window, and from then on the
\* step changes nothing.
C9_ReconcileIdempotentInBounds ==
    /\ withinBounds(focusedDate) => twice = once
    /\ ~withinBounds(focusedDate) =>
           /\ once.startDate = startDate
           /\ withinBounds(once.focusedDate)
    /\ thrice = twice

\* C9 witness: a pass has realigned the window of a focused date within the
\* bounds that was outside it, and the window now contains the focused date.
C9_Witness ==
    /\ phase = "render"
    /\ lastOp.name = "props"
    /\ withinBounds(focusedDate)
    /\ visibleRange.start # startDate
    /\ (JD(focusedDate) < JD(visibleRange.start) \/ JD(focusedDate) > JD(visibleRange.end))
    /\ JD(startDate) <= JD(focusedDate)
    /\ JD(focusedDate) < JD(add(startDate, visibleDuration))

\* What a pass that sees no calendar change does to focusedDate and startDate.
passInOrder ==
    phase \in {"dirty", "render"} /\ calendar = lastCalendarIdentifier =>
        /\ ~withinBounds(focusedDate) =>
               /\ startDate' = startDate
               /\ withinBounds(focusedDate')
        /\ startDate' # startDate =>
               /\ withinBounds(focusedDate)
               /\ focusedDate' = focusedDate
        /\ phase' = IF focusedDate' # focusedDate \/ startDate' # startDate
                    THEN "render" ELSE "idle"
        /\ once = [focusedDate |-> focusedDate', startDate |-> startDate']

\* C10: a pass clamps before it realigns: a pass that finds the focused date
\* out of bounds moves it into the bounds and leaves the window alone; a pass
\* that moves the window found the focused date within bounds and leaves it
\* alone; a pass that requests an update is followed by another pass; and the
\* resulting focusedDate and startDate are a function of the ones it found.
C10_ClampBeforeRealign == [][passInOrder]_vars

\* C10 witness: a pass has clamped the focused date to maxValue and has not
\* moved the window, which starts after the focused date.
C10_Witness ==
    /\ phase = "render"
    /\ lastOp.name = "props"
    /\ maxValue # NoDate
    /\ focusedDate = maxValue
    /\ startDate = visibleRange.start
    /\ JD(focusedDate) < JD(startDate)

\* One unit of the smallest unit of visibleDuration.
unitOf(duration) ==
    IF duration.days # 0 THEN Days(1)
    ELSE IF duration.weeks # 0 THEN Weeks(1)
    ELSE IF duration.months # 0 THEN Months(1)
    ELSE Years(1)

\* date falls in the first (last) unit of the window that starts at start.
inFirstUnit(date, start) ==
    /\ JD(start) <= JD(date)
    /\ JD(date) < JD(add(start, unitOf(visibleDuration)))

inLastUnit(date, start) ==
    /\ JD(subtract(add(start, visibleDuration), unitOf(visibleDuration))) <= JD(date)
    /\ JD(date) < JD(add(start, visibleDuration))

inWindow(date, start) ==
    /\ JD(start) <= JD(date)
    /\ JD(date) < JD(add(start, visibleDuration))

\* A pass that sees no calendar change and finds the focused date within the
\* bounds and before (after) the window.
passFindsFocusBefore ==
    /\ phase \in {"dirty", "render"}
    /\ calendar = lastCalendarIdentifier
    /\ withinBounds(focusedDate)
    /\ JD(focusedDate) < JD(startDate)

passFindsFocusAfter ==
    /\ phase \in {"dirty", "render"}
    /\ calendar = lastCalendarIdentifier
    /\ withinBounds(focusedDate)
    /\ JD(focusedDate) >= JD(add(startDate, visibleDuration))

realignedAsClaimed ==
    /\ passFindsFocusBefore =>
           /\ startDate' = alignEnd(focusedDate, visibleDuration, minValue, maxValue)
           /\ inLastUnit(focusedDate, startDate')
    /\ passFindsFocusAfter =>
           /\ startDate' = alignStart(focusedDate, visibleDuration, minValue, maxValue)
           /\ inFirstUnit(focusedDate, startDate')

\* C11 as claimed: a pass that finds the in-bounds focused date before the
\* window moves the window to alignEnd(focusedDate) and the focused date then
\* falls in the last unit of the window; one that finds it after the window
\* moves the window to alignStart(focusedDate) and the focused date then falls
\* in the first unit of the window.
C11_RealignPlacesFocusInUnit == [][realignedAsClaimed]_vars

\* The window start is one the bounds impose: the aligned start of minValue or
\* the aligned end of maxValue.
startAtBound(start) ==
    \/ (minValue # NoDate /\ start = alignStartRaw(minValue, visibleDuration))
    \/ (maxValue # NoDate /\ start = alignEndRaw(maxValue, visibleDuration))

realignedWithinBounds ==
    /\ passFindsFocusBefore =>
           /\ startDate' = alignEnd(focusedDate, visibleDuration, minValue, maxValue)
           /\ focusedDate' = focusedDate
           /\ inWindow(focusedDate, startDate')
           /\ inLastUnit(focusedDate, startDate') \/ startAtBound(startDate')
           /\ minValue = NoDate /\ maxValue = NoDate => inLastUnit(focusedDate, startDate')
    /\ passFindsFocusAfter =>
           /\ startDate' = alignStart(focusedDate, visibleDuration, minValue, maxValue)
           /\ focusedDate' = focusedDate
           /\ inWindow(focusedDate, startDate')
           /\ inFirstUnit(focusedDate, startDate') \/ startAtBound(startDate')
           /\ minValue = NoDate /\ maxValue = NoDate => inFirstUnit(focusedDate, startDate')

\* C11 amended: the pass moves the window to alignEnd(focusedDate) (focus
\* before the window) or alignStart(focusedDate) (focus after it); the moved
\* window contains the focused date, and the focused date falls in its last
\* (first) unit unless the bounds hold the window at the aligned start of
\* minValue or the aligned end of maxValue.
C11_RealignWithinBounds == [][realignedWithinBounds]_vars

\* C11 witness: a pass has moved a 3-day window back to a focused date that
\* was before it, and the focused date is the last day of the moved window.
C11_Witness ==
    /\ phase = "render"
    /\ visibleDuration = Days(3)
    /\ JD(focusedDate) < JD(visibleRange.start)
    /\ startDate # visibleRange.start
    /\ JD(focusedDate) = JD(startDate) + 2

\* The state right after the hooks are initialised, before the first pass.
mounted == lastOp.name = "mount"

\* The date the initial focus comes from: defaultFocusedValue, else the
\* selected value, else today.
initialFocusSource ==
    IF props.defaultFocusedValue # NoDate THEN props.defaultFocusedValue
    ELSE IF props.defaultValue # NoValue THEN toCalendarDate(props.defaultValue)
    ELSE today

noBounds == minValue = NoDate /\ maxValue = NoDate

\* The initial window of a mounted calendar is placed as selectionAlignment
\* asks.
initialWindowPlaced ==
    /\ props.selectionAlignment = "start" =>
           /\ startDate = alignStart(focusedDate, visibleDuration, minValue, maxValue)
           /\ noBounds => inFirstUnit(focusedDate, startDate)
           /\ noBounds /\ visibleDuration = Days(3) => JD(startDate) = JD(focusedDate)
    /\ props.selectionAlignment = "end" =>
           /\ startDate = alignEnd(focusedDate, visibleDuration, minValue, maxValue)
           /\ noBounds => inLastUnit(focusedDate, startDate)
           /\ noBounds /\ visibleDuration = Days(3) => JD(startDate) = JD(focusedDate) - 2
    /\ props.selectionAlignment \in {"center", "none"} =>
           /\ startDate = alignCenter(focusedDate, visibleDuration, minValue, maxValue)
           /\ noBounds /\ visibleDuration = Days(3) => JD(startDate) = JD(focusedDate) - 1

\* C12: on mount the focused date is defaultFocusedValue, else the selected
\* value, else today, clamped to the bounds and kept on its day; the window
\* is placed by alignStart for 'start', alignEnd for 'end' and alignCenter for
\* 'center' or no alignment; under each policy the window contains the focused
\* date, so that the first pass requests no update.
C12_InitialWindowByAlignment ==
    /\ [](mounted =>
            /\ focusedAt(JD(initialFocusSource), focusedDate)
            /\ initialWindowPlaced
            /\ inWindow(focusedDate, startDate))
    /\ [][mounted => phase' = "idle"]_vars

\* C12 witness: a calendar displayed in the Ethiopic calendar, mounted with
\* selectionAlignment 'end', no bounds and a 3-day window: the focused date is
\* the default focused value and the last day of the window.
C12_Witness ==
    /\ mounted
    /\ calendar = "ethiopic"
    /\ props.selectionAlignment = "end"
    /\ noBounds
    /\ visibleDuration = Days(3)
    /\ props.defaultFocusedValue # NoDate
    /\ JD(focusedDate) = JD(props.defaultFocusedValue)
    /\ JD(startDate) = JD(focusedDate) - 2

\* The work left to the update pass, for the calendar lc the last pass saw,
\* focused date f and window start s: a calendar change to process, a focused
\* date to clamp, a window to realign.
workLeft(lc, f, s) ==
    (IF calendar # lc THEN 4 ELSE 0)
      + (IF withinBounds(f) THEN 0 ELSE 2)
      + (IF inWindow(f, s) THEN 0 ELSE 1)

passesLeft == workLeft(lastCalendarIdentifier, focusedDate, startDate)

\* A pass requests an update exactly when work is left, and then leaves less.
passTerminates ==
    phase \in {"dirty", "render"} =>
        /\ passesLeft = 0 =>
               /\ phase' = "idle"
               /\ workLeft(lastCalendarIdentifier', focusedDate', startDate') = 0
        /\ passesLeft > 0 =>
               /\ phase' = "render"
               /\ workLeft(lastCalendarIdentifier', focusedDate', startDate') < passesLeft

\* C13: from any focused date and window start, with minValue <= maxValue,
\* every pass that requests an update leaves strictly less work (calendar
\* change, clamp, realign) to the next one, so the repeated pass requests no
\* update after at most three passes; the state it stops in has the focused
\* date within the bounds and inside the window, also when the bounds hold the
\* window away from where the raw alignment would put it.
C13_PassesTerminate == [][passTerminates]_vars

\* C13 witness: with bounds two days apart, a pass has moved the window to
\* where the bounds hold it, which is neither the raw start alignment nor the
\* raw end alignment of the focused date.
C13_Witness ==
    /\ phase = "render"
    /\ lastOp.name = "props"
    /\ minValue # NoDate /\ maxValue # NoDate
    /\ JD(maxValue) - JD(minValue) = 1
    /\ startDate # visibleRange.start
    /\ startAtBound(startDate)
    /\ startDate # alignStartRaw(focusedDate, visibleDuration)
    /\ startDate # alignEndRaw(focusedDate, visibleDuration)

\* selectDate or selectFocusedDate is called (on a settled calendar).
selectCall ==
    /\ phase = "idle"
    /\ lastOp'.name \in {"selectDate", "selectFocusedDate"}

\* The call changes neither the focus nor the window, and nothing at all on
\* a disabled or read-only calendar.
selectFrame ==
    selectCall =>
        /\ focusedDate' = focusedDate
        /\ startDate' = startDate
        /\ visibleRange' = visibleRange
        /\ isFocused' = isFocused
        /\ props.isDisabled \/ props.isReadOnly =>
               /\ value' = value
               /\ emitted' = emitted
               /\ phase' = "idle"
        /\ ~props.isDisabled /\ ~props.isReadOnly =>
               /\ emitted' # NoValue
               /\ value' = emitted'
               /\ phase' = "dirty"

\* The pass that follows a selection requests nothing and returns the same
\* visible range.
passAfterSelectFrame ==
    phase = "dirty" /\ lastOp.name \in {"selectDate", "selectFocusedDate"} =>
        /\ focusedDate' = focusedDate
        /\ startDate' = startDate
        /\ visibleRange' = visibleRange
        /\ isFocused' = isFocused
        /\ value' = value
        /\ phase' = "idle"

\* C14: on a disabled or read-only calendar selectDate and selectFocusedDate
\* change neither the value nor what was last passed to onChange; on every
\* calendar they, and the pass that follows an emitted value, leave
\* focusedDate, the visible range and isFocused unchanged.
C14_SelectFrame == [][selectFrame /\ passAfterSelectFrame]_vars

\* C14 witness: selectDate was called on a read-only calendar that has a
\* value and is focused: the value is the default value and nothing was
\* emitted.
C14_Witness ==
    /\ phase = "idle"
    /\ lastOp.name = "selectDate"
    /\ props.isReadOnly /\ ~props.isDisabled
    /\ isFocused
    /\ value # NoValue
    /\ value = props.defaultValue
    /\ JD(lastOp.date) # JD(value)
    /\ emitted = NoValue

\* focusNextPage (focusPreviousPage) is called on a settled calendar.
nextPageCall == phase = "idle" /\ lastOp'.name = "focusNextPage"

previousPageCall == phase = "idle" /\ lastOp'.name = "focusPreviousPage"

\* Neither bound constrains the focused date and the window start of the
\* next (previous) page.
nextPageFree ==
    /\ withinBounds(add(focusedDate, visibleDuration))
    /\ constrainStart(focusedDate, add(startDate, visibleDuration), visibleDuration,
                      minValue, maxValue) = add(startDate, visibleDuration)

previousPageFree ==
    /\ withinBounds(subtract(focusedDate, visibleDuration))
    /\ constrainStart(focusedDate, subtract(startDate, visibleDuration), visibleDuration,
                      minValue, maxValue) = subtract(startDate, visibleDuration)

\* The offset, in days, of the focused date f in the window starting at s.
offsetIn(f, s) == JD(f) - JD(s)

pageKeepsOffset ==
    /\ nextPageCall /\ nextPageFree =>
           /\ focusedDate' = add(focusedDate, visibleDuration)
           /\ startDate' = add(startDate, visibleDuration)
           /\ offsetIn(focusedDate', startDate') = offsetIn(focusedDate, startDate)
           /\ inWindow(focusedDate', startDate')
    /\ previousPageCall /\ previousPageFree =>
           /\ focusedDate' = subtract(focusedDate, visibleDuration)
           /\ startDate' = subtract(startDate, visibleDuration)
           /\ offsetIn(focusedDate', startDate') = offsetIn(focusedDate, startDate)
           /\ inWindow(focusedDate', startDate')

pageClampsToBound ==
    /\ nextPageCall /\ maxValue # NoDate
         /\ JD(add(focusedDate, visibleDuration)) > JD(maxValue) =>
           focusedDate' = maxValue
    /\ previousPageCall /\ minValue # NoDate
         /\ JD(subtract(focusedDate, visibleDuration)) < JD(minValue) =>
           focusedDate' = minValue

\* C15 as claimed: when neither bound constrains them, focusNextPage
\* (focusPreviousPage) moves the focused date and the window start by
\* visibleDuration, the focused date keeps its offset inside the window and
\* lies inside the moved window; when the moved focused date passes maxValue
\* (minValue) the focused date becomes that bound, and the settled window
\* contains it.
C15_PageKeepsOffset ==
    /\ [][pageKeepsOffset /\ pageClampsToBound]_vars
    /\ [](settled => inWindow(focusedDate, startDate))

\* visibleDuration counts days or weeks only.
daysOrWeeksOnly == visibleDuration.months = 0 /\ visibleDuration.years = 0

\* The focused date f in the page that starts at s: for a window of days or
\* weeks it has the offset it had; for a window of months or years it lies in
\* the window when both dates are in the same calendar system.
inMovedPage(f, s) ==
    /\ daysOrWeeksOnly =>
           /\ offsetIn(f, s) = offsetIn(focusedDate, startDate)
           /\ inWindow(f, s)
    /\ ~daysOrWeeksOnly /\ focusedDate.calendar = startDate.calendar =>
           /\ inWindow(f, s)
           /\ f.day = focusedDate.day \/ f.day = getDaysInMonth(f.calendar, f.year, f.month)

pageMovesByDuration ==
    /\ nextPageCall /\ nextPageFree =>
           /\ focusedDate' = add(focusedDate, visibleDuration)
           /\ startDate' = add(startDate, visibleDuration)
           /\ inMovedPage(focusedDate', startDate')
    /\ previousPageCall /\ previousPageFree =>
           /\ focusedDate' = subtract(focusedDate, visibleDuration)
           /\ startDate' = subtract(startDate, visibleDuration)
           /\ inMovedPage(focusedDate', startDate')

\* C15 amended: when neither bound constrains them, focusNextPage
\* (focusPreviousPage) moves the focused date and the window start by
\* visibleDuration, each in its own calendar system.  For a window of days or
\* weeks the focused date keeps its offset and lies inside the moved window;
\* for a window of months or years whose start is in the calendar system of
\* the focused date, the focused date lies inside the moved window on the
\* same day of the month, or on the last day of a shorter month.  When the
\* moved focused date passes maxValue (minValue) the focused date becomes
\* that bound.  In every case the settled window contains the focused date.
C15_PageMovesByDuration ==
    /\ [][pageMovesByDuration /\ pageClampsToBound]_vars
    /\ [](settled => inWindow(focusedDate, startDate))

\* C15 witness: focusNextPage on a one-month window moved the focused date
\* from the end of January to 28 February and the window to February.
C15_Witness ==
    /\ phase = "dirty"
    /\ lastOp.name = "focusNextPage"
    /\ visibleDuration = Months(1)
    /\ focusedDate = G(2022, 2, 28)
    /\ startDate = G(2022, 2, 1)
    /\ visibleRange.start = G(2022, 1, 1)

\* The operations that set the focused date through focusCell alone; the row
\* operations are among them when visibleDuration has no days.
cellFocusOps ==
    {"setFocusedDate", "focusNextDay", "focusPreviousDay", "focusPageStart", "focusPageEnd"}
      \cup (IF visibleDuration.days = 0 THEN {"focusNextRow", "focusPreviousRow"} ELSE {})

inVisibleRange(date) ==
    /\ JD(visibleRange.start) <= JD(date)
    /\ JD(date) <= JD(visibleRange.end)

\* One of these operations is called: what it leaves alone.
cellFocusFrame ==
    phase = "idle" /\ lastOp'.name \in cellFocusOps =>
        /\ startDate' = startDate
        /\ visibleRange' = visibleRange
        /\ value' = value
        /\ emitted' = emitted
        /\ isFocused' = (IF lastOp'.name = "setFocusedDate" THEN TRUE ELSE isFocused)
        /\ lastOp'.name = "focusPageStart" =>
               focusedAt(JD(visibleRange.start), focusedDate')
        /\ lastOp'.name = "focusPageEnd" =>
               focusedAt(JD(visibleRange.end), focusedDate')
        /\ lastOp'.name = "focusNextRow" =>
               focusedAt(JD(focusedDate) + 7, focusedDate')
        /\ lastOp'.name = "focusPreviousRow" =>
               focusedAt(JD(focusedDate) - 7, focusedDate')

\* The pass that follows one of these operations, when the focused date it
\* set lies inside the visible range: it requests nothing.
cellFocusPassFrame ==
    phase = "dirty" /\ lastOp.name \in cellFocusOps /\ inVisibleRange(focusedDate) =>
        /\ focusedDate' = focusedDate
        /\ startDate' = startDate
        /\ visibleRange' = visibleRange
        /\ value' = value
        /\ isFocused' = isFocused
        /\ phase' = "idle"

\* C16: setFocusedDate, focusNextDay, focusPreviousDay, the week-step
\* focusNextRow and focusPreviousRow, focusPageStart and focusPageEnd change
\* neither the window start, the visible range nor the selected value; only
\* setFocusedDate changes isFocused, to true; focusPageStart and focusPageEnd
\* set the focused date to the start and end of the visible range, clamped to
\* the bounds; and when the new focused date lies inside the visible range
\* the following pass changes nothing either.
C16_FocusInsideRangeFrame == [][cellFocusFrame /\ cellFocusPassFrame]_vars

\* C16 witness: on a one-month calendar with a selected value, focusNextRow
\* moved the focused date one week on, to maxValue, inside the visible range.
C16_Witness ==
    /\ phase = "dirty"
    /\ lastOp.name = "focusNextRow"
    /\ visibleDuration = Months(1)
    /\ emitted # NoValue
    /\ value = emitted
    /\ JD(focusedDate) = JD(G(2022, 1, 12))
    /\ inVisibleRange(focusedDate)
    /\ startDate = visibleRange.start

\* The call of an operation, by name, on a settled calendar.
called(name) == phase = "idle" /\ lastOp'.name = name

\* What focusNextPage (focusPreviousPage) does to the focused date and the
\* window start.
asNextPage ==
    /\ focusedDate' = constrainValue(add(focusedDate, visibleDuration), minValue, maxValue)
    /\ startDate' = constrainStart(focusedDate, add(startDate, visibleDuration),
                                   visibleDuration, minValue, maxValue)
    /\ isFocused' = isFocused

asPreviousPage ==
    /\ focusedDate' = constrainValue(subtract(focusedDate, visibleDuration), minValue, maxValue)
    /\ startDate' = constrainStart(focusedDate, subtract(startDate, visibleDuration),
                                   visibleDuration, minValue, maxValue)
    /\ isFocused' = isFocused

\* f is date moved by n years (months) on its calendar, the day kept or, in a
\* shorter month, the last one.
yearsOn(date, n, f) ==
    /\ f.calendar = date.calendar
    /\ f.year = date.year + n
    /\ f.month = date.month
    /\ f.day = date.day \/ f.day = getDaysInMonth(f.calendar, f.year, f.month)

monthsOn(date, n, f) ==
    /\ f.calendar = date.calendar
    /\ f.year * getMonthsInYear(f.calendar) + f.month
         = date.year * getMonthsInYear(f.calendar) + date.month + n
    /\ f.day = date.day \/ f.day = getDaysInMonth(f.calendar, f.year, f.month)

\* The step of a section operation in direction n (1 or -1), for a window
\* without days: a month for a window of weeks, a year otherwise.
sectionStep(n) ==
    LET target == IF visibleDuration.weeks # 0
                  THEN add(focusedDate, Months(n))
                  ELSE add(focusedDate, Years(n))
    IN  /\ focusedAt(JD(target), focusedDate')
        /\ IF visibleDuration.weeks # 0
           THEN monthsOn(focusedDate, n, target)
           ELSE yearsOn(focusedDate, n, target)
        /\ startDate' = startDate

rowStep(n) ==
    /\ focusedAt(JD(focusedDate) + 7 * n, focusedDate')
    /\ startDate' = startDate

rowAndSectionSteps ==
    /\ called("focusNextPage") => asNextPage
    /\ called("focusPreviousPage") => asPreviousPage
    /\ called("focusNextRow") =>
           IF visibleDuration.days # 0 THEN asNextPage ELSE rowStep(1)
    /\ called("focusPreviousRow") =>
           IF visibleDuration.days # 0 THEN asPreviousPage ELSE rowStep(-1)
    /\ called("focusNextSection") =>
           IF visibleDuration.days # 0 THEN asNextPage ELSE sectionStep(1)
    /\ called("focusPreviousSection") =>
           IF visibleDuration.days # 0 THEN asPreviousPage ELSE sectionStep(-1)
    /\ phase = "idle" /\ lastOp'.name \in {"focusNextRow", "focusPreviousRow",
                                            "focusNextSection", "focusPreviousSection"} =>
           withinBounds(focusedDate')

\* C17: with days in visibleDuration, focusNextRow, focusPreviousRow,
\* focusNextSection and focusPreviousSection set the focused date and the
\* window start as focusNextPage and focusPreviousPage do; without, the row
\* operations move the focused date by 7 days and the section operations by
\* one month (window of weeks) or one year (window of months or years) on the
\* calendar of the focused date, leaving the window start; each resulting
\* focused date is clamped to [minValue, maxValue].
C17_RowAndSectionSteps == [][rowAndSectionSteps]_vars

\* C17 witness: on a one-month calendar without maxValue, focusNextSection
\* moved the focused date from 2022 to the same day of 2023.
C17_Witness ==
    /\ phase = "dirty"
    /\ lastOp.name = "focusNextSection"
    /\ visibleDuration = Months(1)
    /\ maxValue = NoDate
    /\ focusedDate.calendar = "gregory"
    /\ focusedDate.year = 2023
    /\ startDate.year = 2022
    /\ startDate = visibleRange.start

\* The cells queried: every day of the range, in the display calendar.
queriedCells == { fromJulianDay(calendar, jd) : jd \in FirstDay..LastDay }

\* C18: on a settled calendar, for every cell date: isCellDisabled holds
\* exactly when the calendar is disabled, or the date is outside the visible
\* range, or outside [minValue, maxValue]; isSelected holds only when there
\* is a value on the same day and the cell is neither disabled nor
\* unavailable; so no disabled or unavailable date is reported as selected,
\* and at most one day is.
C18_DisabledAndSelectedCells ==
    settled =>
        \A date \in queriedCells :
            /\ isCellDisabled(date) <=>
                   (props.isDisabled \/ ~inVisibleRange(date) \/ ~withinBounds(date))
            /\ isSelected(date) =>
                   /\ value # NoValue
                   /\ JD(date) = JD(value)
                   /\ ~props.isDisabled
                   /\ inVisibleRange(date)
                   /\ withinBounds(date)
                   /\ \A d \in props.isDateUnavailable : JD(d) # JD(date)
            /\ (isCellDisabled(date) \/ isCellUnavailable(date)) => ~isSelected(date)

\* C18 witness: the selected value is on an unavailable day that is visible,
\* within the bounds and not disabled, and its cell is not reported selected;
\* the value was selected there by selectDate or selectFocusedDate.
C18_Witness ==
    /\ settled
    /\ value # NoValue
    /\ emitted = value
    /\ isCellUnavailable(calendarDateValue)
    /\ ~isCellDisabled(calendarDateValue)
    /\ ~isSelected(calendarDateValue)

\* The APIs called by the run, in order.
apis == [i \in 1..Len(calls) |-> calls[i].api]

\* The ref writes among the calls made.
refWrites == { i \in 1..Len(calls) : calls[i].api \in {"git.createRef", "git.updateRef"} }

\* The branch lookup was made and answered 404 (200).
isNotFound(error) == error.name = "HttpError" /\ error.status = 404

lookupNotFound ==
    \E i \in 1..Len(calls) :
        calls[i].api = "repos.getBranch" /\ isNotFound(calls[i].error)

lookupOk ==
    \E i \in 1..Len(calls) :
        calls[i].api = "repos.getBranch" /\ calls[i].error = NoError

\* No API call failed; the 404 of the lookup is an answer, not a failure.
noCallFailed ==
    \A i \in 1..Len(calls) :
        \/ calls[i].error = NoError
        \/ calls[i].api = "repos.getBranch" /\ isNotFound(calls[i].error)

runEnded == pc = "done"

\* A step of the run writes no ref but the branch of the pull request.
writesOwnBranchOnly ==
    \A r \in DOMAIN refs :
        refs'[r] # refs[r] =>
            /\ r = "refs/heads/" \o data.login \o "-" \o data.headRef
            /\ refs'[r] = data.merge_commit_sha

\* C19: a run in which no API call fails ends with the branch
\* '<login>-<head ref>' of the base repository at the pull request's
\* merge_commit_sha: after a 404 of the lookup by createRef, without
\* updateRef; after a 200 by updateRef, without createRef; a run writes a ref
\* at most once, and no other ref.
C19_BranchFollowsPullRequest ==
    /\ [](Cardinality(refWrites) <= 1)
    /\ [](runEnded /\ noCallFailed =>
            /\ failed = NoMessage
            /\ refs["refs/heads/" \o data.login \o "-" \o data.headRef]
                 = data.merge_commit_sha
            /\ lookupNotFound =>
                   apis = <<"pulls.get", "repos.getBranch", "git.createRef">>
            /\ lookupOk =>
                   apis = <<"pulls.get", "repos.getBranch", "git.updateRef">>
            /\ lookupNotFound \/ lookupOk)
    /\ [][writesOwnBranchOnly]_vars

\* C19 witness: the run for bob's pull request from head ref fix has ended
\* without a failure; the branch existed and was moved to merge commit m2.
C19_Witness ==
    /\ runEnded
    /\ noCallFailed
    /\ lookupOk
    /\ data.login = "bob" /\ data.headRef = "fix" /\ data.merge_commit_sha = "m2"
    /\ refs["refs/heads/bob-fix"] = "m2"
    /\ refs["refs/heads/alice-fix"] = "old"
    /\ apis[Len(calls)] = "git.updateRef"

\* The i-th call failed, the 404 of the lookup apart.
callFailed(i) ==
    /\ calls[i].error # NoError
    /\ ~(calls[i].api = "repos.getBranch" /\ isNotFound(calls[i].error))

\* C20: a failed API call is the last call of the run, and the run ends
\* marked failed with the message of its error; so after a lookup that fails
\* with anything but an HttpError 404 neither createRef nor updateRef is
\* called; no error leaves run() uncaught, a run that is not marked failed
\* had no failed call, and every run ends, after at most three calls.
C20_FailuresEndInSetFailed ==
    /\ [](~unhandled)
    /\ [](\A i \in 1..Len(calls) :
             callFailed(i) =>
                 /\ i = Len(calls)
                 /\ runEnded
                 /\ failed = calls[i].error.message
                 /\ calls[i].api = "repos.getBranch" => refWrites = {})
    /\ [](failed # NoMessage => runEnded /\ callFailed(Len(calls)))
    /\ [](Len(calls) <= 3)
    /\ <>runEnded

\* C20 witness: the lookup failed with an error of status 404 that is not an
\* HttpError; the run ended marked failed with its message, without a write.
C20_Witness ==
    /\ runEnded
    /\ Len(calls) = 2
    /\ calls[2].api = "repos.getBranch"
    /\ calls[2].error.status = 404
    /\ calls[2].error.name # "HttpError"
    /\ failed = calls[2].error.message
    /\ refWrites = {}

====
